---- MODULE Spec2Model ----
(***************************************************************************)
(* The interactive setup prompts of src/cli/utils.py, the default          *)
(* configuration of src/tradingagents/default_config.py and the script     *)
(* src/main.py, as state machines.                                         *)
(*                                                                         *)
(* Text that the code converts (strip, upper, lower, the date regex and    *)
(* strptime) is a sequence of one-character strings.  Text that the code   *)
(* only passes on or tests for emptiness (URLs, model names, messages) is  *)
(* a string.  Python's None is a record field (none / absent), never a     *)
(* value of the same type as an answer.                                    *)
(***************************************************************************)
EXTENDS Integers, Sequences, FiniteSets, TLC

VARIABLES
    environ,         \* os.environ when default_config.py is imported
    module_dir,      \* os.path.dirname(__file__) of default_config.py
    heap,            \* the dict objects, by object name
    config,          \* the object main.py's name config is bound to ("" before)
    pc,              \* where control is: "idle" between calls, an open prompt,
                     \* a line of main.py, or "exited"
    fn,              \* the function of utils.py called last ("" before any)
    prompts,         \* the prompts shown in this call, in order
    answers,         \* what ask() returned for them, in order
    entry,           \* the last submission to a prompt that has a validator
    locals,          \* select_llm_provider / get_custom_openai_config locals
    arg,             \* provider_info handed to the model selectors
    consulted,       \* the model lookup table was read in this call
    console,         \* console.print lines that end a call with exit
    exited,          \* exit() was called
    exitStatus,      \* its argument
    ret              \* what the call returned

vars == <<environ, module_dir, heap, config, pc, fn, prompts, answers,
          entry, locals, arg, consulted, console, exited, exitStatus, ret>>

----------------------------------------------------------------------------
(* Characters and text.                                                    *)

\* One character: U+0663 ARABIC-INDIC DIGIT THREE, a decimal digit that is
\* not ASCII.  Python's \d and int() take it; the classes [0-9] do not.
ArabicThree == "u0663"

AsciiDigits == {"0", "1", "2", "3", "4", "5", "6", "7", "8", "9"}

\* What \d matches in a str pattern (re.UNICODE is the default).
IsDigit(c) == c \in AsciiDigits \cup {ArabicThree}

\* int() of one decimal digit.
DigitVal(c) ==
    CASE c = "0" -> 0 [] c = "1" -> 1 [] c = "2" -> 2 [] c = "3" -> 3
      [] c = "4" -> 4 [] c = "5" -> 5 [] c = "6" -> 6 [] c = "7" -> 7
      [] c = "8" -> 8 [] c = "9" -> 9 [] c = ArabicThree -> 3

\* int() of a run of decimal digits.
RECURSIVE IntOf(_)
IntOf(s) ==
    IF s = <<>> THEN 0
    ELSE 10 * IntOf(SubSeq(s, 1, Len(s) - 1)) + DigitVal(s[Len(s)])

\* str.isspace() on the characters the entries use.
IsSpace(c) == c \in {" ", "\t", "\n"}

RECURSIVE LStrip(_)
LStrip(s) ==
    IF s # <<>> /\ IsSpace(Head(s)) THEN LStrip(Tail(s)) ELSE s

RECURSIVE RStrip(_)
RStrip(s) ==
    IF s # <<>> /\ IsSpace(s[Len(s)]) THEN RStrip(SubSeq(s, 1, Len(s) - 1)) ELSE s

\* str.strip()
Strip(s) == RStrip(LStrip(s))

LowerChar(c) ==
    CASE c = "A" -> "a" [] c = "B" -> "b" [] c = "C" -> "c" [] c = "D" -> "d"
      [] c = "E" -> "e" [] c = "F" -> "f" [] c = "G" -> "g" [] c = "H" -> "h"
      [] c = "I" -> "i" [] c = "J" -> "j" [] c = "K" -> "k" [] c = "L" -> "l"
      [] c = "M" -> "m" [] c = "N" -> "n" [] c = "O" -> "o" [] c = "P" -> "p"
      [] c = "Q" -> "q" [] c = "R" -> "r" [] c = "S" -> "s" [] c = "T" -> "t"
      [] c = "U" -> "u" [] c = "V" -> "v" [] c = "W" -> "w" [] c = "X" -> "x"
      [] c = "Y" -> "y" [] c = "Z" -> "z" [] OTHER -> c

UpperChar(c) ==
    CASE c = "a" -> "A" [] c = "b" -> "B" [] c = "c" -> "C" [] c = "d" -> "D"
      [] c = "e" -> "E" [] c = "f" -> "F" [] c = "g" -> "G" [] c = "h" -> "H"
      [] c = "i" -> "I" [] c = "j" -> "J" [] c = "k" -> "K" [] c = "l" -> "L"
      [] c = "m" -> "M" [] c = "n" -> "N" [] c = "o" -> "O" [] c = "p" -> "P"
      [] c = "q" -> "Q" [] c = "r" -> "R" [] c = "s" -> "S" [] c = "t" -> "T"
      [] c = "u" -> "U" [] c = "v" -> "V" [] c = "w" -> "W" [] c = "x" -> "X"
      [] c = "y" -> "Y" [] c = "z" -> "Z" [] OTHER -> c

\* The label used as it is, not lower-cased.
Lower_identity(s) == s

\* str.lower(), str.upper()
Lower(s) == [i \in 1..Len(s) |-> LowerChar(s[i])]
Upper(s) == [i \in 1..Len(s) |-> UpperChar(s[i])]

----------------------------------------------------------------------------
(* get_analysis_date's validator.                                          *)

\* re.match(r"^\d{4}-\d{2}-\d{2}$", date_str): ten characters in the shape
\* dddd-dd-dd, and $ also matches just before one trailing newline.
DateReBody(s) ==
    /\ Len(s) >= 10
    /\ \A i \in {1, 2, 3, 4, 6, 7, 9, 10} : IsDigit(s[i])
    /\ s[5] = "-"
    /\ s[8] = "-"

MatchesDateRe(s) ==
    /\ DateReBody(s)
    /\ \/ Len(s) = 10
       \/ Len(s) = 11 /\ s[11] = "\n"

\* _strptime's directive %m: 1[0-2]|0[1-9]|[1-9]
MonthToken(t) ==
    \/ Len(t) = 2 /\ t[1] = "1" /\ t[2] \in {"0", "1", "2"}
    \/ Len(t) = 2 /\ t[1] = "0" /\ t[2] \in AsciiDigits \ {"0"}
    \/ Len(t) = 1 /\ t[1] \in AsciiDigits \ {"0"}

\* _strptime's directive %d: 3[01]|[12]\d|0[1-9]|[1-9]| [1-9]
DayToken(t) ==
    \/ Len(t) = 2 /\ t[1] = "3" /\ t[2] \in {"0", "1"}
    \/ Len(t) = 2 /\ t[1] \in {"1", "2"} /\ IsDigit(t[2])
    \/ Len(t) = 2 /\ t[1] = "0" /\ t[2] \in AsciiDigits \ {"0"}
    \/ Len(t) = 1 /\ t[1] \in AsciiDigits \ {"0"}
    \/ Len(t) = 2 /\ t[1] = " " /\ t[2] \in AsciiDigits \ {"0"}

\* calendar.isleap
IsLeap(y) == y % 4 = 0 /\ (y % 100 # 0 \/ y % 400 = 0)

\* the day count datetime's constructor checks against
DaysInMonth(y, m) ==
    IF m = 2 THEN (IF IsLeap(y) THEN 29 ELSE 28)
    ELSE IF m \in {4, 6, 9, 11} THEN 30 ELSE 31

\* datetime.strptime(date_str, "%Y-%m-%d") returns (TRUE) or raises
\* ValueError (FALSE): the format's regex (\d\d\d\d)-(%m)-(%d) must match
\* and leave nothing unconverted, and the fields must make a date (the
\* year is at least datetime.MINYEAR = 1; four digits keep it below MAXYEAR).
StrptimeOk(s) ==
    /\ Len(s) >= 8
    /\ \A i \in 1..4 : IsDigit(s[i])
    /\ s[5] = "-"
    /\ \E j \in {7, 8} :
          /\ j < Len(s)
          /\ s[j] = "-"
          /\ MonthToken(SubSeq(s, 6, j - 1))
          /\ DayToken(SubSeq(s, j + 1, Len(s)))
          /\ LET y == IntOf(SubSeq(s, 1, 4))
                 m == IntOf(SubSeq(s, 6, j - 1))
                 d == IntOf(LStrip(SubSeq(s, j + 1, Len(s))))
             IN  /\ y >= 1
                 /\ 1 <= d /\ d <= DaysInMonth(y, m)

\* validate_date without its regex test: strptime alone decides.
validate_date_no_regex(date_str) == StrptimeOk(date_str)

\* validate_date, lines 49-56
validate_date(date_str) ==
    IF ~MatchesDateRe(date_str) THEN FALSE
    ELSE StrptimeOk(date_str)

----------------------------------------------------------------------------
(* Python dicts: functions whose DOMAIN is the key set.                    *)

EmptyDict == [k \in {} |-> ""]

\* d[k] = v
SetItem(d, k, v) == [x \in DOMAIN d \cup {k} |-> IF x = k THEN v ELSE d[x]]

\* d.get(k, default)
DictGet(d, k, default) == IF k \in DOMAIN d THEN d[k] ELSE default

----------------------------------------------------------------------------
(* src/tradingagents/default_config.py                                     *)

\* os.getenv(name, default)
Getenv(env, name, default) == DictGet(env, name, default)

\* os.path.join of a directory (a sequence of components) and a relative path
PathJoin(dir, rel) == dir \o rel

\* os.path.abspath of an absolute path: normpath drops "." and lets ".."
\* take the component before it away (at the root ".." is dropped).
RECURSIVE NormPath(_, _)
NormPath(done, rest) ==
    IF rest = <<>> THEN done
    ELSE IF Head(rest) = "." THEN NormPath(done, Tail(rest))
    ELSE IF Head(rest) = ".."
         THEN NormPath(IF done = <<>> THEN done
                       ELSE SubSeq(done, 1, Len(done) - 1), Tail(rest))
    ELSE NormPath(Append(done, Head(rest)), Tail(rest))

AbsPath(p) == NormPath(<<>>, p)

\* The dict literal of lines 3-23, evaluated in environment env with the
\* module in directory dir.
DefaultConfigOf(env, dir) ==
    [project_dir |-> AbsPath(PathJoin(dir, <<".">>)),
     results_dir |-> Getenv(env, "TRADINGAGENTS_RESULTS_DIR", "./results"),
     data_dir |-> "/Users/yluo/Documents/Code/ScAI/FR1-data",
     data_cache_dir |-> PathJoin(AbsPath(PathJoin(dir, <<".">>)),
                                 <<"dataflows", "data_cache">>),
     llm_provider |-> "openai",
     deep_think_llm |-> "deepseek-r1-250528",
     quick_think_llm |-> "doubao-seed-1-6-flash-250615",
     backend_url |-> "https://ark.cn-beijing.volces.com/api/v3",
     max_debate_rounds |-> 1,
     max_risk_discuss_rounds |-> 1,
     max_recur_limit |-> 1000,
     online_tools |-> TRUE]

\* The object the name DEFAULT_CONFIG is bound to, and its contents now.
DefaultConfigObj == "DEFAULT_CONFIG"
DEFAULT_CONFIG == heap[DefaultConfigObj]

\* The environments and module directories the import is tried in.
Environs ==
    {EmptyDict,
     [HOME |-> "/root"],
     [TRADINGAGENTS_RESULTS_DIR |-> ""],
     [TRADINGAGENTS_RESULTS_DIR |-> "/tmp/out"],
     [HOME |-> "/root", TRADINGAGENTS_RESULTS_DIR |-> "./results"]}

ModuleDirs ==
    {<<"opt", "app", "tradingagents">>,
     <<"srv", "ta", "..", "tradingagents">>,
     <<"home", "u", ".", "tradingagents">>}

----------------------------------------------------------------------------
(* src/main.py                                                             *)

\* dict.copy(): a new object with the same items.  Gives the heap after the
\* copy and the name of the new object.
DictCopy(h, src, new) == [heap |-> SetItem(h, new, h[src]), obj |-> new]

\* config[key] = value, lines 6-11
\* The assignment made under a key that DEFAULT_CONFIG does not have.
MainAssign_other_key(h, obj, key, value) ==
    SetItem(h, obj, SetItem(h[obj], "provider", value))

MainAssign(h, obj, key, value) == SetItem(h, obj, SetItem(h[obj], key, value))

\* The assignments of lines 6-11: the line, the key, the value and the line
\* control goes to next.
MainAssignments ==
    <<[line |-> "main:6", key |-> "llm_provider", value |-> "openai", next |-> "main:7"],
      [line |-> "main:7", key |-> "backend_url",
       value |-> "https://ark.cn-beijing.volces.com/api/v3", next |-> "main:8"],
      [line |-> "main:8", key |-> "deep_think_llm", value |-> "deepseek-r1-250528",
       next |-> "main:9"],
      [line |-> "main:9", key |-> "quick_think_llm",
       value |-> "doubao-seed-1-6-flash-250615", next |-> "main:10"],
      [line |-> "main:10", key |-> "max_debate_rounds", value |-> 1, next |-> "main:11"],
      [line |-> "main:11", key |-> "online_tools", value |-> TRUE, next |-> "main:14"]>>

----------------------------------------------------------------------------
(* What a prompt gives back, and how a call ends.                          *)

\* ask() returns None when the prompt is cancelled, else the answer.
None == [none |-> TRUE, val |-> ""]
NoneText == [none |-> TRUE, val |-> <<>>]
NoneDict == [none |-> TRUE, val |-> EmptyDict]
NoneInt == [none |-> TRUE, val |-> 0]
Some(v) == [none |-> FALSE, val |-> v]

\* Python's "not x" for an Optional[str], an Optional text or list, and an
\* Optional[dict].
NotStr(a) == a.none \/ a.val = ""
NotSeq(a) == a.none \/ a.val = <<>>
NotDict(a) == a.none \/ DOMAIN a.val = {}

\* How an answer is entered in the record of answers.
ClassStr(a) == IF a.none THEN "absent" ELSE IF a.val = "" THEN "empty" ELSE "value"
ClassSeq(a) == IF a.none THEN "absent" ELSE IF a.val = <<>> THEN "empty" ELSE "value"
ClassDict(a) == IF a.none THEN "absent" ELSE IF DOMAIN a.val = {} THEN "empty" ELSE "value"
ClassChoice(a) == IF a.none THEN "absent" ELSE "value"

\* A provider tuple (provider, url, metadata) that stands for "no tuple".
NoInfo == <<<<>>, "", [type |-> ""]>>

NoRet == [returned |-> FALSE, text |-> <<>>, depth |-> 0, model |-> "", info |-> NoInfo]
NoEntry == [typed |-> FALSE, text |-> <<>>, rejected |-> FALSE, error |-> ""]
NoArg == [present |-> FALSE, composed |-> FALSE, info |-> NoInfo]
NoLocals ==
    [has_configs |-> FALSE, use_saved |-> "unset", saved_called |-> FALSE,
     custom_url |-> None, custom_quick_model |-> None, custom_deep_model |-> None]

\* The ways a stretch of code ends: exit(status) after printing msg, return
\* of a value, or going on to the prompt named next.
ExitWith(m) ==
    [kind |-> "exit", status |-> 1, msg |-> m, ret |-> NoRet, next |-> "",
     consulted |-> FALSE]
Returns(r) ==
    [kind |-> "return", status |-> 0, msg |-> "", ret |-> r, next |-> "",
     consulted |-> FALSE]
GoesTo(p) ==
    [kind |-> "goto", status |-> 0, msg |-> "", ret |-> NoRet, next |-> p,
     consulted |-> FALSE]
Raises(e) ==
    [kind |-> "raise", status |-> 1, msg |-> e, ret |-> NoRet, next |-> "",
     consulted |-> FALSE]

ReturnsText(t) == Returns([NoRet EXCEPT !.returned = TRUE, !.text = t])
ReturnsDepth(n) == Returns([NoRet EXCEPT !.returned = TRUE, !.depth = n])
ReturnsModel(m) == Returns([NoRet EXCEPT !.returned = TRUE, !.model = m])
ReturnsInfo(i) == Returns([NoRet EXCEPT !.returned = TRUE, !.info = i])

----------------------------------------------------------------------------
(* get_ticker, lines 24-41                                                 *)

\* validate=lambda x: len(x.strip()) > 0 or "Please enter a valid ticker symbol."
TickerValidator(x) ==
    IF Len(Strip(x)) > 0 THEN [ok |-> TRUE, error |-> ""]
    ELSE [ok |-> FALSE, error |-> "Please enter a valid ticker symbol."]

\* lines 37-41, with ticker what ask() returned
get_ticker(ticker) ==
    IF NotSeq(ticker) THEN ExitWith("No ticker symbol provided. Exiting...")
    ELSE ReturnsText(Upper(Strip(ticker.val)))

----------------------------------------------------------------------------
(* get_analysis_date, lines 44-74                                          *)

\* validate=lambda x: validate_date(x.strip()) or "Please enter a valid date ..."
DateValidator(x) ==
    IF validate_date(Strip(x)) THEN [ok |-> TRUE, error |-> ""]
    ELSE [ok |-> FALSE, error |-> "Please enter a valid date in YYYY-MM-DD format."]

\* lines 70-74, with date what ask() returned
get_analysis_date(date) ==
    IF NotSeq(date) THEN ExitWith("No date provided. Exiting...")
    ELSE ReturnsText(Strip(date.val))

----------------------------------------------------------------------------
(* select_analysts, lines 77-100                                           *)

\* The values of ANALYST_ORDER, lines 16-21, in order.
ANALYST_ORDER == <<"MARKET", "SOCIAL", "NEWS", "FUNDAMENTALS">>

\* What the checkbox submits when the set picked is checked: the values of
\* the checked choices in the order of the choices.
Checked(picked) == SelectSeq(ANALYST_ORDER, LAMBDA v : v \in picked)

\* validate=lambda x: len(x) > 0 or "You must select at least one analyst."
AnalystsValidator(x) ==
    IF Len(x) > 0 THEN [ok |-> TRUE, error |-> ""]
    ELSE [ok |-> FALSE, error |-> "You must select at least one analyst."]

\* lines 96-100
select_analysts(choices) ==
    IF NotSeq(choices) THEN ExitWith("No analysts selected. Exiting...")
    ELSE ReturnsText(choices.val)

----------------------------------------------------------------------------
(* select_research_depth, lines 103-132                                    *)

\* The values of DEPTH_OPTIONS, lines 107-111.
DEPTH_OPTIONS == <<1, 3, 5>>

\* lines 128-132
select_research_depth(choice) ==
    IF choice.none THEN ExitWith("No research depth selected. Exiting...")
    ELSE ReturnsDepth(choice.val)

----------------------------------------------------------------------------
(* select_llm_provider, lines 135-194, and get_custom_openai_config,       *)
(* lines 197-238                                                           *)

\* lines 152-160: (display, value, metadata)
BASE_URLS ==
    <<
      <<<<"D", "e", "f", "a", "u", "l", "t", " ", "C", "o", "n", "f", "i", "g">>,
        "default", [type |-> "default"]>>,
      <<<<"O", "p", "e", "n", "A", "I">>,
        "https://api.openai.com/v1", [type |-> "preset"]>>,
      <<<<"C", "u", "s", "t", "o", "m", " ", "O", "p", "e", "n", "A", "I", " ", "C", "o", "m", "p", "a", "t", "i", "b", "l", "e">>,
        "custom_openai", [type |-> "custom_openai"]>>,
      <<<<"A", "n", "t", "h", "r", "o", "p", "i", "c">>,
        "https://api.anthropic.com/", [type |-> "preset"]>>,
      <<<<"G", "o", "o", "g", "l", "e">>,
        "https://generativelanguage.googleapis.com/v1", [type |-> "preset"]>>,
      <<<<"O", "p", "e", "n", "r", "o", "u", "t", "e", "r">>,
        "https://openrouter.ai/api/v1", [type |-> "preset"]>>,
      <<<<"O", "l", "l", "a", "m", "a">>,
        "http://localhost:11434/v1", [type |-> "preset"]>>
    >>

\* The labels the function returns for the kinds that are not presets.
LabelDefault == <<"d", "e", "f", "a", "u", "l", "t">>
LabelCustom == <<"c", "u", "s", "t", "o", "m", "_", "o", "p", "e", "n", "a", "i">>
LabelSaved == <<"s", "a", "v", "e", "d", "_", "c", "o", "n", "f", "i", "g">>

\* line 140: if list_configs(), the confirm question is put; else the menu.
AfterListConfigs(has_configs) ==
    IF has_configs THEN "confirm_saved" ELSE "provider_menu"

\* select_saved_config() called unless the answer is no.
AfterConfirm_unless_no(use_saved) ==
    IF use_saved # "no" THEN GoesTo("select_saved_config")
    ELSE GoesTo("provider_menu")

\* line 146: if use_saved, select_saved_config() is called; else the menu.
\* use_saved is "yes", "no" or "absent" (None).
AfterConfirm(use_saved) ==
    IF use_saved = "yes" THEN GoesTo("select_saved_config")
    ELSE GoesTo("provider_menu")

\* "if saved_config is not None" in place of "if saved_config".
AfterSavedConfig_not_none(saved_config) ==
    IF ~saved_config.none
    THEN ReturnsInfo(<<LabelSaved, "saved_config",
                       [type |-> "saved_config", config |-> saved_config.val]>>)
    ELSE GoesTo("provider_menu")

\* lines 148-149: a truthy saved_config is returned; else the menu.
AfterSavedConfig(saved_config) ==
    IF ~NotDict(saved_config)
    THEN ReturnsInfo(<<LabelSaved, "saved_config",
                       [type |-> "saved_config", config |-> saved_config.val]>>)
    ELSE GoesTo("provider_menu")

\* lines 178-194, with choice the menu's answer (an entry of BASE_URLS)
AfterProviderMenu(choice) ==
    IF choice.none THEN ExitWith("No LLM provider selected. Exiting...")
    ELSE LET display_name == choice.val[1]
             url == choice.val[2]
             metadata == choice.val[3]
         IN  IF metadata.type = "default"
             THEN ReturnsInfo(<<LabelDefault, "default", [type |-> "default"]>>)
             ELSE IF metadata.type = "custom_openai"
             THEN GoesTo("custom_url")
             ELSE ReturnsInfo(<<display_name, url, [type |-> "preset"]>>)

\* The URL not tested.
AfterCustomUrl_no_check(custom_url) == GoesTo("custom_quick_model")

\* lines 208-210
AfterCustomUrl(custom_url) ==
    IF NotStr(custom_url) THEN ExitWith("No URL provided. Exiting...")
    ELSE GoesTo("custom_quick_model")

\* lines 213-219: the quick model name is not looked at before the deep
\* model name is asked for.
AfterCustomQuick(custom_quick_model) == GoesTo("custom_deep_model")

\* Only the deep model name tested.
AfterCustomDeep_deep_only(custom_url, custom_quick_model, custom_deep_model) ==
    IF NotStr(custom_deep_model)
    THEN ExitWith("Model names are required. Exiting...")
    ELSE ReturnsInfo(<<LabelCustom, custom_url.val,
                       [type |-> "custom_openai",
                        quick_model |-> custom_quick_model.val,
                        deep_model |-> custom_deep_model.val]>>)

\* lines 225-238
AfterCustomDeep(custom_url, custom_quick_model, custom_deep_model) ==
    IF NotStr(custom_quick_model) \/ NotStr(custom_deep_model)
    THEN ExitWith("Model names are required. Exiting...")
    ELSE ReturnsInfo(<<LabelCustom, custom_url.val,
                       [type |-> "custom_openai",
                        quick_model |-> custom_quick_model.val,
                        deep_model |-> custom_deep_model.val]>>)

----------------------------------------------------------------------------
(* select_shallow_thinking_agent, lines 241-317, and                       *)
(* select_deep_thinking_agent, lines 320-398                               *)

\* SHALLOW_AGENT_OPTIONS: src/cli/utils.py:262-289, a dict kept as its
\* (key, list of (display, value)) pairs in source order.
SHALLOW_AGENT_OPTIONS ==
    <<
       <<<<"o", "p", "e", "n", "a", "i">>,
         <<<<"GPT-4o-mini - Fast and efficient for quick tasks", "gpt-4o-mini">>,
           <<"GPT-4.1-nano - Ultra-lightweight model for basic operations", "gpt-4.1-nano">>,
           <<"GPT-4.1-mini - Compact model with good performance", "gpt-4.1-mini">>,
           <<"GPT-4o - Standard model with solid capabilities", "gpt-4o">>>>>>,
       <<<<"a", "n", "t", "h", "r", "o", "p", "i", "c">>,
         <<<<"Claude Haiku 3.5 - Fast inference and standard capabilities", "claude-3-5-haiku-latest">>,
           <<"Claude Sonnet 3.5 - Highly capable standard model", "claude-3-5-sonnet-latest">>,
           <<"Claude Sonnet 3.7 - Exceptional hybrid reasoning and agentic capabilities", "claude-3-7-sonnet-latest">>,
           <<"Claude Sonnet 4 - High performance and excellent reasoning", "claude-sonnet-4-0">>>>>>,
       <<<<"g", "o", "o", "g", "l", "e">>,
         <<<<"Gemini 2.0 Flash-Lite - Cost efficiency and low latency", "gemini-2.0-flash-lite">>,
           <<"Gemini 2.0 Flash - Next generation features, speed, and thinking", "gemini-2.0-flash">>,
           <<"Gemini 2.5 Flash - Adaptive thinking, cost efficiency", "gemini-2.5-flash-preview-05-20">>>>>>,
       <<<<"o", "p", "e", "n", "r", "o", "u", "t", "e", "r">>,
         <<<<"Meta: Llama 4 Scout", "meta-llama/llama-4-scout:free">>,
           <<"Meta: Llama 3.3 8B Instruct - A lightweight and ultra-fast variant of Llama 3.3 70B", "meta-llama/llama-3.3-8b-instruct:free">>,
           <<"google/gemini-2.0-flash-exp:free - Gemini Flash 2.0 offers a significantly faster time to first token", "google/gemini-2.0-flash-exp:free">>>>>>,
       <<<<"o", "l", "l", "a", "m", "a">>,
         <<<<"llama3.1 local", "llama3.1">>,
           <<"llama3.2 local", "llama3.2">>>>>>
    >>

\* DEEP_AGENT_OPTIONS: src/cli/utils.py:341-372, a dict kept as its
\* (key, list of (display, value)) pairs in source order.
DEEP_AGENT_OPTIONS ==
    <<
       <<<<"o", "p", "e", "n", "a", "i">>,
         <<<<"GPT-4.1-nano - Ultra-lightweight model for basic operations", "gpt-4.1-nano">>,
           <<"GPT-4.1-mini - Compact model with good performance", "gpt-4.1-mini">>,
           <<"GPT-4o - Standard model with solid capabilities", "gpt-4o">>,
           <<"o4-mini - Specialized reasoning model (compact)", "o4-mini">>,
           <<"o3-mini - Advanced reasoning model (lightweight)", "o3-mini">>,
           <<"o3 - Full advanced reasoning model", "o3">>,
           <<"o1 - Premier reasoning and problem-solving model", "o1">>>>>>,
       <<<<"a", "n", "t", "h", "r", "o", "p", "i", "c">>,
         <<<<"Claude Haiku 3.5 - Fast inference and standard capabilities", "claude-3-5-haiku-latest">>,
           <<"Claude Sonnet 3.5 - Highly capable standard model", "claude-3-5-sonnet-latest">>,
           <<"Claude Sonnet 3.7 - Exceptional hybrid reasoning and agentic capabilities", "claude-3-7-sonnet-latest">>,
           <<"Claude Sonnet 4 - High performance and excellent reasoning", "claude-sonnet-4-0">>,
           <<"Claude Opus 4 - Most powerful Anthropic model", "\tclaude-opus-4-0">>>>>>,
       <<<<"g", "o", "o", "g", "l", "e">>,
         <<<<"Gemini 2.0 Flash-Lite - Cost efficiency and low latency", "gemini-2.0-flash-lite">>,
           <<"Gemini 2.0 Flash - Next generation features, speed, and thinking", "gemini-2.0-flash">>,
           <<"Gemini 2.5 Flash - Adaptive thinking, cost efficiency", "gemini-2.5-flash-preview-05-20">>,
           <<"Gemini 2.5 Pro", "gemini-2.5-pro-preview-06-05">>>>>>,
       <<<<"o", "p", "e", "n", "r", "o", "u", "t", "e", "r">>,
         <<<<"DeepSeek V3 - a 685B-parameter, mixture-of-experts model", "deepseek/deepseek-chat-v3-0324:free">>,
           <<"Deepseek - latest iteration of the flagship chat model family from the DeepSeek team.", "deepseek/deepseek-chat-v3-0324:free">>>>>>,
       <<<<"o", "l", "l", "a", "m", "a">>,
         <<<<"llama3.1 local", "llama3.1">>,
           <<"qwen3", "qwen3">>>>>>
    >>

\* "key in table" and table[key] for a table kept as (key, list) pairs
TableKeys(table) == {table[i][1] : i \in 1..Len(table)}
TableGet(table, key) == table[CHOOSE i \in 1..Len(table) : table[i][1] = key][2]

\* An unknown provider given the default model instead of the exit.
BeforeQuickMenu_fallback(provider_info) ==
    LET provider == provider_info[1]
        metadata == provider_info[3]
    IN  IF metadata.type = "default"
        THEN ReturnsModel(DEFAULT_CONFIG.quick_think_llm)
        ELSE IF metadata.type = "custom_openai"
        THEN IF "quick_model" \in DOMAIN metadata
             THEN ReturnsModel(metadata.quick_model)
             ELSE Raises("KeyError")
        ELSE IF metadata.type = "saved_config"
        THEN IF "config" \in DOMAIN metadata
             THEN ReturnsModel(DictGet(metadata.config, "quick_think_llm",
                                       DEFAULT_CONFIG.quick_think_llm))
             ELSE Raises("KeyError")
        ELSE LET provider_key == Lower(provider)
             IN  IF provider_key \notin TableKeys(SHALLOW_AGENT_OPTIONS)
                 THEN [ReturnsModel(DEFAULT_CONFIG.quick_think_llm)
                          EXCEPT !.consulted = TRUE]
                 ELSE [GoesTo("quick_model_menu") EXCEPT !.consulted = TRUE]

\* lines 243-293: up to the menu.  A metadata key that is read and missing
\* raises KeyError.
BeforeQuickMenu(provider_info) ==
    LET provider == provider_info[1]
        metadata == provider_info[3]
    IN  IF metadata.type = "default"
        THEN ReturnsModel(DEFAULT_CONFIG.quick_think_llm)
        ELSE IF metadata.type = "custom_openai"
        THEN IF "quick_model" \in DOMAIN metadata
             THEN ReturnsModel(metadata.quick_model)
             ELSE Raises("KeyError")
        ELSE IF metadata.type = "saved_config"
        THEN IF "config" \in DOMAIN metadata
             THEN ReturnsModel(DictGet(metadata.config, "quick_think_llm",
                                       DEFAULT_CONFIG.quick_think_llm))
             ELSE Raises("KeyError")
        ELSE LET provider_key == Lower(provider)
             IN  IF provider_key \notin TableKeys(SHALLOW_AGENT_OPTIONS)
                 THEN [ExitWith("Unknown provider") EXCEPT !.consulted = TRUE]
                 ELSE [GoesTo("quick_model_menu") EXCEPT !.consulted = TRUE]

\* The menu made from the deep table.
QuickMenuChoices_deep_table(provider_info) ==
    TableGet(DEEP_AGENT_OPTIONS, Lower(provider_info[1]))

\* lines 297-300: the choices of the menu
QuickMenuChoices(provider_info) ==
    TableGet(SHALLOW_AGENT_OPTIONS, Lower(provider_info[1]))

\* lines 311-317, with choice the position picked on the menu, or None
AfterQuickMenu(menu, choice) ==
    IF choice.none
    THEN ExitWith("No shallow thinking llm engine selected. Exiting...")
    ELSE ReturnsModel(menu[choice.val][2])

\* The saved_config branch left out.
BeforeDeepMenu_no_saved_branch(provider_info) ==
    LET provider == provider_info[1]
        metadata == provider_info[3]
    IN  IF metadata.type = "default"
        THEN ReturnsModel(DEFAULT_CONFIG.deep_think_llm)
        ELSE IF metadata.type = "custom_openai"
        THEN IF "deep_model" \in DOMAIN metadata
             THEN ReturnsModel(metadata.deep_model)
             ELSE Raises("KeyError")
        ELSE LET provider_key == Lower(provider)
             IN  IF provider_key \notin TableKeys(DEEP_AGENT_OPTIONS)
                 THEN [ExitWith("Unknown provider") EXCEPT !.consulted = TRUE]
                 ELSE [GoesTo("deep_model_menu") EXCEPT !.consulted = TRUE]

\* lines 322-376
BeforeDeepMenu(provider_info) ==
    LET provider == provider_info[1]
        metadata == provider_info[3]
    IN  IF metadata.type = "default"
        THEN ReturnsModel(DEFAULT_CONFIG.deep_think_llm)
        ELSE IF metadata.type = "custom_openai"
        THEN IF "deep_model" \in DOMAIN metadata
             THEN ReturnsModel(metadata.deep_model)
             ELSE Raises("KeyError")
        ELSE IF metadata.type = "saved_config"
        THEN IF "config" \in DOMAIN metadata
             THEN ReturnsModel(DictGet(metadata.config, "deep_think_llm",
                                       DEFAULT_CONFIG.deep_think_llm))
             ELSE Raises("KeyError")
        ELSE LET provider_key == Lower(provider)
             IN  IF provider_key \notin TableKeys(DEEP_AGENT_OPTIONS)
                 THEN [ExitWith("Unknown provider") EXCEPT !.consulted = TRUE]
                 ELSE [GoesTo("deep_model_menu") EXCEPT !.consulted = TRUE]

\* lines 380-383
DeepMenuChoices(provider_info) ==
    TableGet(DEEP_AGENT_OPTIONS, Lower(provider_info[1]))

\* lines 394-398
AfterDeepMenu(menu, choice) ==
    IF choice.none
    THEN ExitWith("No deep thinking llm engine selected. Exiting...")
    ELSE ReturnsModel(menu[choice.val][2])

----------------------------------------------------------------------------
(* What the user and the saved-configuration store can hand to the code.   *)

\* The most whitespace put on either side of an entry.
MaxPad == 1

Spaces(n) == [i \in 1..n |-> " "]
Padded(S) == {Spaces(i) \o s \o Spaces(j) : s \in S, i \in 0..MaxPad, j \in 0..MaxPad}

DigitChar(n) == CHOOSE c \in AsciiDigits : DigitVal(c) = n
Pad2(n) == <<DigitChar((n \div 10) % 10), DigitChar(n % 10)>>
Pad4(n) == Pad2(n \div 100) \o Pad2(n % 100)
FmtDate(y, m, d) == Pad4(y) \o <<"-">> \o Pad2(m) \o <<"-">> \o Pad2(d)

EntryYears == {0, 1, 1900, 2000, 2023, 2024}
EntryMonths == {0, 1, 2, 4, 12, 13}
EntryDays == {0, 1, 28, 29, 30, 31, 32}

\* Entries that are not of the form FmtDate gives.
OddDates ==
    {<<>>,
     <<" ">>,
     <<"2", "0", "2", "4", "-", "1", "-", "0", "5">>,
     <<"2", "0", "2", "4", "-", "0", "1", "-", "5">>,
     <<"2", "0", "2", "4", "-", "1", "-", "5">>,
     <<"2", "0", "2", "4", "/", "0", "1", "/", "0", "5">>,
     <<"2", "0", "2", "4", "_", "0", "1", "_", "0", "5">>,
     <<"2", "0", "2", "4", "0", "1", "0", "5">>,
     <<"2", "4", "-", "0", "1", "-", "0", "5">>,
     <<"a", "b", "c", "d", "-", "0", "1", "-", "0", "1">>,
     <<"1", "2", "0", "2", "4", "-", "0", "1", "-", "0", "1">>,
     <<"2", "0", "2", "4", "-", "0", "1", "-", "0", "5", "x">>,
     <<"2", "0", "2", "4", "-", "0", "1", "-", " ", "5">>,
     <<"2", "0", "2", "4", "-", "0", "1", "-", "0", "5", " ", "1", "0">>,
     <<"2", "0", "2", "4", "-", "0", "1", "-", "0", "5", "\n">>,
     <<"\t", "2", "0", "2", "4", "-", "0", "2", "-", "2", "9", "\n">>,
     <<"2", "0", "2", ArabicThree, "-", "0", "1", "-", "0", "1">>,
     <<"2", "0", "2", "4", "-", "0", ArabicThree, "-", "0", "1">>,
     <<"2", "0", "2", "4", "-", "0", "1", "-", "1", ArabicThree>>,
     <<"2", "0", "2", "4", "-", "0", "1", "-", ArabicThree, "0">>}

DateEntries ==
    {FmtDate(y, m, d) : y \in EntryYears, m \in EntryMonths, d \in EntryDays}
    \cup Padded({FmtDate(2024, 2, 29), FmtDate(2023, 2, 29), FmtDate(2024, 1, 5)})
    \cup OddDates

TickerEntries ==
    Padded({<<"n", "v", "d", "a">>, <<"A", "a", "p", "l">>, <<"b", "r", "k", ".", "b">>})
    \cup {<<>>, <<" ">>, <<"\t", "\n">>}

\* What select_saved_config() can return: None, an empty mapping, or a
\* configuration-shaped mapping (with or without the two model keys).
SavedConfigs ==
    {[llm_provider |-> "openai", backend_url |-> "https://api.openai.com/v1",
      quick_think_llm |-> "saved-quick", deep_think_llm |-> "saved-deep"],
     [llm_provider |-> "ollama", quick_think_llm |-> "saved-quick"],
     [llm_provider |-> "ollama", deep_think_llm |-> "saved-deep"],
     [llm_provider |-> "anthropic"]}

SavedResults == {NoneDict, Some(EmptyDict)} \cup {Some(c) : c \in SavedConfigs}

\* Answers to get_custom_openai_config's three text prompts.
UrlAnswers ==
    {None, Some(""), Some("https://api.your-provider.com/v1"),
     Some("http://localhost:8000/v1")}
ModelNameAnswers == {None, Some(""), Some("gpt-4o-mini"), Some("my-model")}

\* Provider tuples a caller other than the setup sequence could pass to the
\* model selectors: any label with any kind, the metadata carrying the keys
\* of its kind.
DirectLabels ==
    {<<"O", "p", "e", "n", "A", "I">>,
     <<"o", "p", "e", "n", "a", "i">>,
     <<"A", "N", "T", "H", "R", "O", "P", "I", "C">>,
     <<"O", "l", "l", "a", "m", "a">>,
     <<"A", "z", "u", "r", "e">>,
     <<"O", "p", "e", "n", " ", "A", "I">>,
     LabelDefault, LabelCustom, LabelSaved,
     <<>>}

DirectMetadata ==
    {[type |-> "default"], [type |-> "preset"], [type |-> "azure"]}
    \cup {[type |-> "custom_openai", quick_model |-> q, deep_model |-> d] :
             q \in {"gpt-4o-mini", "my-model"}, d \in {"gpt-4o", "my-model"}}
    \cup {[type |-> "saved_config", config |-> c] : c \in SavedConfigs \cup {EmptyDict}}

DirectInfos ==
    {<<l, "https://example.test/v1", m>> : l \in DirectLabels, m \in DirectMetadata}

----------------------------------------------------------------------------
(* The state machine.                                                      *)

cfgvars == <<environ, module_dir, heap, config>>

\* The state when a process starts at line start: default_config.py has been
\* imported in one of the environments envs from one of the directories dirs.
Start(envs, dirs, start) ==
    /\ environ \in envs
    /\ module_dir \in dirs
    /\ heap = SetItem(EmptyDict, DefaultConfigObj, DefaultConfigOf(environ, module_dir))
    /\ config = ""
    /\ pc = start
    /\ fn = ""
    /\ prompts = <<>>
    /\ answers = <<>>
    /\ entry = NoEntry
    /\ locals = NoLocals
    /\ arg = NoArg
    /\ consulted = FALSE
    /\ console = <<>>
    /\ exited = FALSE
    /\ exitStatus = 0
    /\ ret = NoRet

\* The command-line front-end: the prompt functions are called from "idle".
\* They read DEFAULT_CONFIG's two model names only, so two environments and
\* one directory are tried.
CliEnvirons == {EmptyDict, [TRADINGAGENTS_RESULTS_DIR |-> "/tmp/out"]}
CliModuleDirs == {<<"opt", "app", "tradingagents">>}

Init == Start(CliEnvirons, CliModuleDirs, "idle")

\* The script main.py, about to run its line 5.
InitMain == Start(Environs, ModuleDirs, "main:5")

\* A call of function f from the idle state: the record of the call starts
\* empty.
Begin(f) ==
    /\ pc = "idle"
    /\ fn' = f
    /\ answers' = <<>>
    /\ entry' = NoEntry
    /\ UNCHANGED cfgvars

\* Control leaves a stretch of code with outcome o; shown and printed are the
\* prompts and console lines of the call so far.
Finish(o, shown, printed, looked) ==
    /\ pc' = CASE o.kind = "exit" -> "exited"
               [] o.kind = "raise" -> "raised"
               [] o.kind = "return" -> "idle"
               [] o.kind = "goto" -> o.next
    /\ prompts' = IF o.kind = "goto" THEN Append(shown, o.next) ELSE shown
    /\ console' = IF o.kind = "exit" THEN Append(printed, o.msg) ELSE printed
    /\ exited' = (o.kind \in {"exit", "raise"})
    /\ exitStatus' = IF o.kind \in {"exit", "raise"} THEN o.status ELSE exitStatus
    /\ ret' = o.ret
    /\ consulted' = (looked \/ o.consulted)

\* A prompt with a validator: a submission the validator refuses stays in
\* the prompt with the error shown; one it accepts is what ask() returns.
Reject(p, x, verdict) ==
    /\ pc = p
    /\ ~verdict.ok
    /\ entry' = [typed |-> TRUE, text |-> x, rejected |-> TRUE, error |-> verdict.error]
    /\ UNCHANGED <<cfgvars, pc, fn, prompts, answers, locals, arg, consulted,
                   console, exited, exitStatus, ret>>

Accept(p, x, verdict, o) ==
    /\ pc = p
    /\ verdict.ok
    /\ entry' = [typed |-> TRUE, text |-> x, rejected |-> FALSE, error |-> ""]
    /\ answers' = Append(answers, ClassSeq(Some(x)))
    /\ Finish(o, prompts, console, consulted)
    /\ UNCHANGED <<cfgvars, fn, locals, arg>>

\* The prompt p is answered with an answer of class c, and the code after it
\* ends with o.
Answer(p, c, o) ==
    /\ pc = p
    /\ answers' = Append(answers, c)
    /\ Finish(o, prompts, console, consulted)
    /\ UNCHANGED <<cfgvars, fn, entry, arg>>

(* get_ticker *)
CallGetTicker ==
    /\ Begin("get_ticker")
    /\ locals' = NoLocals
    /\ arg' = NoArg
    /\ Finish(GoesTo("ticker"), <<>>, <<>>, FALSE)

GetTickerReject == \E x \in TickerEntries : Reject("ticker", x, TickerValidator(x))

GetTickerAccept ==
    \E x \in TickerEntries :
        Accept("ticker", x, TickerValidator(x), get_ticker(Some(x)))

GetTickerCancel ==
    Answer("ticker", "absent", get_ticker(NoneText)) /\ UNCHANGED locals

(* get_analysis_date *)
CallGetAnalysisDate ==
    /\ Begin("get_analysis_date")
    /\ locals' = NoLocals
    /\ arg' = NoArg
    /\ Finish(GoesTo("date"), <<>>, <<>>, FALSE)

GetAnalysisDateReject == \E x \in DateEntries : Reject("date", x, DateValidator(x))

GetAnalysisDateAccept ==
    \E x \in DateEntries :
        Accept("date", x, DateValidator(x), get_analysis_date(Some(x)))

GetAnalysisDateCancel ==
    Answer("date", "absent", get_analysis_date(NoneText)) /\ UNCHANGED locals

(* select_analysts *)
CallSelectAnalysts ==
    /\ Begin("select_analysts")
    /\ locals' = NoLocals
    /\ arg' = NoArg
    /\ Finish(GoesTo("analysts"), <<>>, <<>>, FALSE)

SelectAnalystsReject ==
    \E picked \in SUBSET {ANALYST_ORDER[i] : i \in 1..Len(ANALYST_ORDER)} :
        Reject("analysts", Checked(picked), AnalystsValidator(Checked(picked)))

SelectAnalystsAccept ==
    \E picked \in SUBSET {ANALYST_ORDER[i] : i \in 1..Len(ANALYST_ORDER)} :
        Accept("analysts", Checked(picked), AnalystsValidator(Checked(picked)),
               select_analysts(Some(Checked(picked))))

SelectAnalystsCancel ==
    Answer("analysts", "absent", select_analysts(NoneText)) /\ UNCHANGED locals

(* select_research_depth *)
CallSelectResearchDepth ==
    /\ Begin("select_research_depth")
    /\ locals' = NoLocals
    /\ arg' = NoArg
    /\ Finish(GoesTo("research_depth"), <<>>, <<>>, FALSE)

AnswerResearchDepth ==
    \E c \in {NoneInt} \cup {Some(DEPTH_OPTIONS[i]) : i \in 1..Len(DEPTH_OPTIONS)} :
        Answer("research_depth", ClassChoice(c), select_research_depth(c))
        /\ UNCHANGED locals

(* select_llm_provider and get_custom_openai_config *)
CallSelectLlmProvider ==
    \E has_configs \in BOOLEAN :
        /\ Begin("select_llm_provider")
        /\ locals' = [NoLocals EXCEPT !.has_configs = has_configs]
        /\ arg' = NoArg
        /\ Finish(GoesTo(AfterListConfigs(has_configs)), <<>>, <<>>, FALSE)

AnswerConfirmSaved ==
    \E use_saved \in {"yes", "no", "absent"} :
        /\ Answer("confirm_saved", use_saved, AfterConfirm(use_saved))
        /\ locals' = [locals EXCEPT !.use_saved = use_saved]

AnswerSelectSavedConfig ==
    \E saved_config \in SavedResults :
        /\ Answer("select_saved_config", ClassDict(saved_config),
                  AfterSavedConfig(saved_config))
        /\ UNCHANGED locals

AnswerProviderMenu ==
    \E c \in {[none |-> TRUE, val |-> NoInfo]}
             \cup {Some(BASE_URLS[i]) : i \in 1..Len(BASE_URLS)} :
        /\ Answer("provider_menu", ClassChoice(c), AfterProviderMenu(c))
        /\ UNCHANGED locals

AnswerCustomUrl ==
    \E a \in UrlAnswers :
        /\ Answer("custom_url", ClassStr(a), AfterCustomUrl(a))
        /\ locals' = [locals EXCEPT !.custom_url = a]

AnswerCustomQuick ==
    \E a \in ModelNameAnswers :
        /\ Answer("custom_quick_model", ClassStr(a), AfterCustomQuick(a))
        /\ locals' = [locals EXCEPT !.custom_quick_model = a]

AnswerCustomDeep ==
    \E a \in ModelNameAnswers :
        /\ Answer("custom_deep_model", ClassStr(a),
                  AfterCustomDeep(locals.custom_url, locals.custom_quick_model, a))
        /\ locals' = [locals EXCEPT !.custom_deep_model = a]

(* select_shallow_thinking_agent and select_deep_thinking_agent *)

\* The provider tuples a selector can be called with now: the one
\* select_llm_provider has just returned, the one the selector before was
\* given, or any tuple of DirectInfos.
Passable ==
    (IF fn = "select_llm_provider" /\ ret.returned
     THEN {[present |-> TRUE, composed |-> TRUE, info |-> ret.info]} ELSE {})
    \cup (IF arg.present /\ arg.composed THEN {arg} ELSE {})
    \cup {[present |-> TRUE, composed |-> FALSE, info |-> i] : i \in DirectInfos}

CallSelectShallow ==
    \E a \in Passable :
        /\ Begin("select_shallow_thinking_agent")
        /\ locals' = NoLocals
        /\ arg' = a
        /\ Finish(BeforeQuickMenu(a.info), <<>>, <<>>, FALSE)

AnswerQuickMenu ==
    /\ pc = "quick_model_menu"
    /\ LET menu == QuickMenuChoices(arg.info)
       IN  \E c \in {NoneInt} \cup {Some(i) : i \in 1..Len(menu)} :
               /\ Answer("quick_model_menu", ClassChoice(c), AfterQuickMenu(menu, c))
               /\ UNCHANGED locals

CallSelectDeep ==
    \E a \in Passable :
        /\ Begin("select_deep_thinking_agent")
        /\ locals' = NoLocals
        /\ arg' = a
        /\ Finish(BeforeDeepMenu(a.info), <<>>, <<>>, FALSE)

AnswerDeepMenu ==
    /\ pc = "deep_model_menu"
    /\ LET menu == DeepMenuChoices(arg.info)
       IN  \E c \in {NoneInt} \cup {Some(i) : i \in 1..Len(menu)} :
               /\ Answer("deep_model_menu", ClassChoice(c), AfterDeepMenu(menu, c))
               /\ UNCHANGED locals

(* main.py *)
clivars == <<fn, prompts, answers, entry, locals, arg, consulted, console,
             exited, exitStatus, ret>>

\* line 5: config = DEFAULT_CONFIG.copy()
MainCopy ==
    /\ pc = "main:5"
    /\ LET r == DictCopy(heap, DefaultConfigObj, "copy")
       IN  heap' = r.heap /\ config' = r.obj
    /\ pc' = "main:6"
    /\ UNCHANGED <<environ, module_dir, clivars>>

\* lines 6-11
MainAssignStep ==
    \E i \in 1..Len(MainAssignments) :
        /\ pc = MainAssignments[i].line
        /\ heap' = MainAssign(heap, config, MainAssignments[i].key,
                              MainAssignments[i].value)
        /\ pc' = MainAssignments[i].next
        /\ UNCHANGED <<environ, module_dir, config, clivars>>

\* lines 14-18: the graph is built from config, run and its decision
\* printed; none of it is in this repository's supplied files, and config is
\* handed over as it is.
MainRun ==
    /\ pc \in {"main:14", "main:17", "main:18"}
    /\ pc' = CASE pc = "main:14" -> "main:17"
               [] pc = "main:17" -> "main:18"
               [] pc = "main:18" -> "main:end"
    /\ UNCHANGED <<cfgvars, clivars>>

Next ==
    \/ CallGetTicker \/ GetTickerReject \/ GetTickerAccept \/ GetTickerCancel
    \/ CallGetAnalysisDate \/ GetAnalysisDateReject \/ GetAnalysisDateAccept
    \/ GetAnalysisDateCancel
    \/ CallSelectAnalysts \/ SelectAnalystsReject \/ SelectAnalystsAccept
    \/ SelectAnalystsCancel
    \/ CallSelectResearchDepth \/ AnswerResearchDepth
    \/ CallSelectLlmProvider \/ AnswerConfirmSaved \/ AnswerSelectSavedConfig
    \/ AnswerProviderMenu \/ AnswerCustomUrl \/ AnswerCustomQuick \/ AnswerCustomDeep
    \/ CallSelectShallow \/ AnswerQuickMenu
    \/ CallSelectDeep \/ AnswerDeepMenu

Spec == Init /\ [][Next]_vars

NextMain == MainCopy \/ MainAssignStep \/ MainRun

SpecMain == InitMain /\ [][NextMain]_vars

----------------------------------------------------------------------------
(* The properties.                                                         *)

InSelector ==
    fn \in {"select_shallow_thinking_agent", "select_deep_thinking_agent"}

ShortCircuitKinds == {"default", "custom_openai", "saved_config"}

\* Prompt i of this call was answered with nothing: None, "" or an empty list.
NoAnswerAt(i) == i \in 1..Len(answers) /\ answers[i] \in {"absent", "empty"}

\* ---- C1 ----------------------------------------------------------------
\* A decimal digit; the shape dddd-dd-dd; the date the ten characters name
\* is a date of the calendar; t is e without its surrounding whitespace.
C1_Digit(c) == c \in {"0", "1", "2", "3", "4", "5", "6", "7", "8", "9", ArabicThree}

C1_Shape(s) ==
    /\ Len(s) = 10
    /\ s[5] = "-" /\ s[8] = "-"
    /\ \A i \in (1..10) \ {5, 8} : C1_Digit(s[i])

C1_MonthLengths(y) ==
    <<31, IF y % 400 = 0 \/ (y % 4 = 0 /\ y % 100 # 0) THEN 29 ELSE 28,
      31, 30, 31, 30, 31, 31, 30, 31, 30, 31>>

C1_RealDate(s) ==
    LET y == 1000 * DigitVal(s[1]) + 100 * DigitVal(s[2])
             + 10 * DigitVal(s[3]) + DigitVal(s[4])
        m == 10 * DigitVal(s[6]) + DigitVal(s[7])
        d == 10 * DigitVal(s[9]) + DigitVal(s[10])
    IN  m \in 1..12 /\ d \in 1..C1_MonthLengths(y)[m]

C1_Valid(s) == C1_Shape(s) /\ C1_RealDate(s)

C1_IsStripOf(t, e) ==
    /\ t = <<>> \/ (~IsSpace(t[1]) /\ ~IsSpace(t[Len(t)]))
    /\ \E a \in 0..Len(e) :
          /\ a + Len(t) <= Len(e)
          /\ SubSeq(e, a + 1, a + Len(t)) = t
          /\ \A i \in (1..a) \cup ((a + Len(t) + 1)..Len(e)) : IsSpace(e[i])

C1_Stripped(e) ==
    CHOOSE t \in {SubSeq(e, a, b) : a \in 1..(Len(e) + 1), b \in 0..Len(e)} :
        C1_IsStripOf(t, e)

\* C1: get_analysis_date takes an entry only if, with its surrounding
\* whitespace stripped, it has the shape of four digits, "-", two digits,
\* "-", two digits and names a date of the calendar (month 01-12, day within
\* the month's length in that year, leap years counted); any other entry is
\* refused by the validator (the prompt stays open until it is answered or
\* cancelled); and what the function returns is the stripped entry, which
\* has both properties.
C1_DateAcceptedOnlyIfValid ==
    fn = "get_analysis_date" =>
        /\ (entry.typed /\ ~C1_Valid(C1_Stripped(entry.text)))
              => /\ entry.rejected
                 /\ ~ret.returned
                 /\ pc = "date" \/ (exited /\ answers = <<"absent">>)
        /\ (entry.typed /\ ~entry.rejected) => C1_Valid(C1_Stripped(entry.text))
        /\ ret.returned =>
              /\ entry.typed /\ ~entry.rejected
              /\ C1_IsStripOf(ret.text, entry.text)
              /\ C1_Valid(ret.text)

\* A leap day entered with whitespace around it has been returned stripped.
C1_Witness ==
    /\ fn = "get_analysis_date"
    /\ ret.returned
    /\ ret.text = FmtDate(2024, 2, 29)
    /\ Len(entry.text) > Len(ret.text)

\* ---- C2 ----------------------------------------------------------------
C2_Prompts ==
    {"analysts", "provider_menu", "quick_model_menu", "deep_model_menu",
     "custom_quick_model", "custom_deep_model"}

\* C2: when the analyst checklist, the provider menu, the quick-model or
\* deep-model menu or a custom model-name prompt is answered with nothing,
\* the call does not return and the process exits with status 1 (for the
\* quick model name, once the deep model name has been asked for as well);
\* and select_analysts returns only a non-empty list of the four roles.
C2_EmptySelectionExits ==
    /\ \A i \in 1..Len(answers) :
          (prompts[i] \in C2_Prompts /\ NoAnswerAt(i)) =>
              /\ ~ret.returned
              /\ pc # "idle"
              /\ \/ exited /\ exitStatus = 1 /\ pc = "exited"
                 \/ /\ prompts[i] = "custom_quick_model"
                    /\ pc = "custom_deep_model"
                    /\ Len(answers) = i
    /\ (fn = "select_analysts" /\ ret.returned) =>
          /\ ret.text # <<>>
          /\ \A i \in 1..Len(ret.text) :
                ret.text[i] \in {"MARKET", "SOCIAL", "NEWS", "FUNDAMENTALS"}

\* An empty quick model name, a deep model name given, and the process has
\* exited.
C2_Witness ==
    /\ fn = "select_llm_provider"
    /\ exited /\ exitStatus = 1
    /\ Len(answers) = Len(prompts)
    /\ prompts[Len(prompts)] = "custom_deep_model"
    /\ answers[Len(answers)] = "value"
    /\ answers[Len(answers) - 1] = "empty"

\* ---- C3 ----------------------------------------------------------------
\* The prompts after which the code tests the answer at once.
C3_ImmediatePrompts ==
    {"ticker", "date", "analysts", "research_depth", "provider_menu", "custom_url",
     "custom_deep_model", "quick_model_menu", "deep_model_menu"}

C3_SetupPrompts ==
    C3_ImmediatePrompts \cup {"confirm_saved", "select_saved_config", "custom_quick_model"}

\* C3 as stated: at every prompt of the setup sequence a refused entry or an
\* answer of nothing ends the process with a message and a nonzero status,
\* with no retry and no later prompt.
C3_EveryFailureExits ==
    /\ \A i \in 1..Len(answers) :
          (prompts[i] \in C3_SetupPrompts /\ NoAnswerAt(i)) =>
              /\ exited /\ exitStatus # 0 /\ console # <<>>
              /\ Len(prompts) = i
    /\ entry.rejected => (exited /\ exitStatus # 0 /\ console # <<>>)

\* C3 amended: an answer of nothing at the ticker, date, analyst, research
\* depth, provider-menu, custom-URL, custom deep-model-name, quick-model or
\* deep-model prompt ends the process at once: one message, status 1, no
\* later prompt, no return.  An empty quick model name ends it the same way
\* only after the deep model name has been asked for too.  A cancelled
\* confirm of the saved-configuration question, or no configuration picked,
\* does not end the process: the provider menu comes next.  An entry a
\* validator refuses does not end the process either: the prompt stays open.
C3_FailureHandling ==
    /\ \A i \in 1..Len(answers) :
          /\ (prompts[i] \in C3_ImmediatePrompts /\ NoAnswerAt(i)) =>
                /\ exited /\ exitStatus = 1 /\ pc = "exited"
                /\ Len(console) = 1
                /\ Len(prompts) = i
                /\ ~ret.returned
          /\ (prompts[i] = "custom_quick_model" /\ NoAnswerAt(i)) =>
                /\ Len(prompts) = i + 1
                /\ prompts[i + 1] = "custom_deep_model"
                /\ ~ret.returned
                /\ IF Len(answers) = i
                   THEN ~exited /\ pc = "custom_deep_model"
                   ELSE exited /\ exitStatus = 1 /\ Len(console) = 1
          /\ (prompts[i] \in {"confirm_saved", "select_saved_config"} /\ NoAnswerAt(i)) =>
                /\ Len(prompts) > i
                /\ prompts[i + 1] = "provider_menu"
                /\ (Len(answers) = i => ~exited /\ pc = "provider_menu")
    /\ (entry.rejected /\ answers = <<>>) =>
          /\ ~exited
          /\ pc \in {"ticker", "date", "analysts"}
          /\ prompts = <<pc>>
    /\ exited => (pc = "exited" /\ exitStatus = 1 /\ ~ret.returned)

\* The saved-configuration question was cancelled and the provider menu is up.
C3_Witness ==
    /\ fn = "select_llm_provider"
    /\ prompts = <<"confirm_saved", "provider_menu">>
    /\ answers = <<"absent">>
    /\ pc = "provider_menu"
    /\ ~exited

\* ---- C4 ----------------------------------------------------------------
\* C4: given metadata of kind default, custom_openai or saved_config, the
\* quick and the deep model selector return at once, whatever the label:
\* the lookup table is not read, no menu is shown and the process does not
\* exit.
C4_ShortCircuit ==
    (InSelector /\ arg.present /\ arg.info[3].type \in ShortCircuitKinds) =>
        /\ ret.returned
        /\ pc = "idle"
        /\ ~consulted
        /\ prompts = <<>> /\ answers = <<>>
        /\ ~exited /\ console = <<>>

\* The deep selector has returned for a saved configuration passed under a
\* label that is in no lookup table.
C4_Witness ==
    /\ fn = "select_deep_thinking_agent"
    /\ arg.present /\ ~arg.composed
    /\ arg.info[3].type = "saved_config"
    /\ arg.info[1] = <<"A", "z", "u", "r", "e">>
    /\ ret.returned

\* ---- C6 ----------------------------------------------------------------
C6_Keys ==
    {<<"o", "p", "e", "n", "a", "i">>,
     <<"a", "n", "t", "h", "r", "o", "p", "i", "c">>,
     <<"g", "o", "o", "g", "l", "e">>,
     <<"o", "p", "e", "n", "r", "o", "u", "t", "e", "r">>,
     <<"o", "l", "l", "a", "m", "a">>}

\* t is s with its capital letters A-Z made small.
C6_IsLowerOf(t, s) ==
    /\ Len(t) = Len(s)
    /\ \A i \in 1..Len(s) : t[i] = LowerChar(s[i])

\* C6: given metadata of any other kind and a label whose lower-case form is
\* not a key of the lookup table, either selector ends the process with
\* status 1 at once: no menu, no model, no return.
C6_UnknownProviderExits ==
    (/\ InSelector
     /\ arg.present
     /\ arg.info[3].type \notin ShortCircuitKinds
     /\ ~\E k \in C6_Keys : C6_IsLowerOf(k, arg.info[1])) =>
        /\ exited /\ exitStatus = 1 /\ pc = "exited"
        /\ console = <<"Unknown provider">>
        /\ prompts = <<>> /\ answers = <<>>
        /\ ~ret.returned /\ ret.model = ""

\* The quick selector was given a preset tuple labelled "Azure".
C6_Witness ==
    /\ fn = "select_shallow_thinking_agent"
    /\ arg.present
    /\ arg.info[3].type = "preset"
    /\ arg.info[1] = <<"A", "z", "u", "r", "e">>
    /\ exited

\* ---- C7 ----------------------------------------------------------------
C7_PresetLabels ==
    {<<"O", "p", "e", "n", "A", "I">>,
     <<"A", "n", "t", "h", "r", "o", "p", "i", "c">>,
     <<"G", "o", "o", "g", "l", "e">>,
     <<"O", "p", "e", "n", "r", "o", "u", "t", "e", "r">>,
     <<"O", "l", "l", "a", "m", "a">>}

C7_WellFormed(info) ==
    LET label == info[1]
        url == info[2]
        metadata == info[3]
    IN  /\ metadata.type \in {"default", "preset", "custom_openai", "saved_config"}
        /\ metadata.type = "default" =>
              /\ label = LabelDefault /\ url = "default"
              /\ DOMAIN metadata = {"type"}
        /\ metadata.type = "saved_config" =>
              /\ label = LabelSaved /\ url = "saved_config"
              /\ DOMAIN metadata = {"type", "config"}
              /\ DOMAIN metadata.config # {}
        /\ metadata.type = "custom_openai" =>
              /\ label = LabelCustom
              /\ url # ""
              /\ DOMAIN metadata = {"type", "quick_model", "deep_model"}
              /\ metadata.quick_model # "" /\ metadata.deep_model # ""
        /\ metadata.type = "preset" =>
              /\ label \in C7_PresetLabels
              /\ \E i \in 1..Len(BASE_URLS) :
                    BASE_URLS[i][1] = label /\ BASE_URLS[i][2] = url
              /\ DOMAIN metadata = {"type"}

\* C7: every tuple select_llm_provider returns has one of the four kinds and
\* the form of its kind: ("default", "default"); ("saved_config",
\* "saved_config") with a non-empty config mapping; custom_openai with a
\* non-empty URL and non-empty quick_model and deep_model; a preset label with
\* that label's own URL.  So the metadata keys the selectors read are there.
C7_ProviderTupleWellFormed ==
    (fn = "select_llm_provider" /\ ret.returned) => C7_WellFormed(ret.info)

\* A custom OpenAI-compatible configuration has been returned.
C7_Witness ==
    /\ fn = "select_llm_provider"
    /\ ret.returned
    /\ ret.info[3].type = "custom_openai"
    /\ ret.info[2] = "http://localhost:8000/v1"

\* ---- C8 ----------------------------------------------------------------
C8_OwnList(table, label) ==
    LET options == TableGet(table, Lower(label))
    IN  {options[i][2] : i \in 1..Len(options)}

C8_ModelFor(info, model, key, custom_key, table) ==
    LET metadata == info[3]
    IN  CASE metadata.type = "default" -> model = DEFAULT_CONFIG[key]
          [] metadata.type = "custom_openai" -> model = metadata[custom_key]
          [] metadata.type = "saved_config" ->
                IF key \in DOMAIN metadata.config
                THEN model = metadata.config[key]
                ELSE model = DEFAULT_CONFIG[key]
          [] OTHER -> model \in C8_OwnList(table, info[1])

\* C8: the model a selector returns comes from the source selected: the
\* default configuration's model for kind default; the name the user entered
\* for kind custom_openai; the saved profile's model if it has one and the
\* default configuration's if not, for kind saved_config; an entry of the
\* provider's own list for a preset.
C8_ModelFromSelectedSource ==
    /\ (fn = "select_shallow_thinking_agent" /\ ret.returned) =>
          C8_ModelFor(arg.info, ret.model, "quick_think_llm", "quick_model",
                      SHALLOW_AGENT_OPTIONS)
    /\ (fn = "select_deep_thinking_agent" /\ ret.returned) =>
          C8_ModelFor(arg.info, ret.model, "deep_think_llm", "deep_model",
                      DEEP_AGENT_OPTIONS)
    /\ (fn = "select_llm_provider" /\ ret.returned
           /\ ret.info[3].type = "custom_openai") =>
          /\ ret.info[3].quick_model = locals.custom_quick_model.val
          /\ ret.info[3].deep_model = locals.custom_deep_model.val
          /\ ~locals.custom_quick_model.none /\ ~locals.custom_deep_model.none
    /\ DEFAULT_CONFIG.quick_think_llm = "doubao-seed-1-6-flash-250615"
    /\ DEFAULT_CONFIG.deep_think_llm = "deepseek-r1-250528"

\* A saved profile without a deep model was passed on by select_llm_provider
\* and the deep selector returned the default configuration's.
C8_Witness ==
    /\ fn = "select_deep_thinking_agent"
    /\ arg.composed
    /\ arg.info[3].type = "saved_config"
    /\ "deep_think_llm" \notin DOMAIN arg.info[3].config
    /\ ret.returned
    /\ ret.model = "deepseek-r1-250528"

\* ---- C9 ----------------------------------------------------------------
\* C9: when the selectors are given the tuple select_llm_provider returned,
\* "Unknown provider" is never printed: each preset label it returns has,
\* in lower case, a non-empty list in the quick and in the deep table, and a
\* selector ends the process only when its menu is left unanswered.
C9_UnknownProviderUnreachable ==
    /\ (fn = "select_llm_provider" /\ ret.returned /\ ret.info[3].type = "preset") =>
          \E k \in C6_Keys :
              /\ C6_IsLowerOf(k, ret.info[1])
              /\ \E i \in 1..Len(SHALLOW_AGENT_OPTIONS) :
                    SHALLOW_AGENT_OPTIONS[i][1] = k /\ SHALLOW_AGENT_OPTIONS[i][2] # <<>>
              /\ \E i \in 1..Len(DEEP_AGENT_OPTIONS) :
                    DEEP_AGENT_OPTIONS[i][1] = k /\ DEEP_AGENT_OPTIONS[i][2] # <<>>
    /\ (InSelector /\ arg.present /\ arg.composed) =>
          /\ C7_WellFormed(arg.info)
          /\ \A i \in 1..Len(console) : console[i] # "Unknown provider"
          /\ pc # "raised"
          /\ exited =>
                /\ prompts \in {<<"quick_model_menu">>, <<"deep_model_menu">>}
                /\ answers = <<"absent">>

\* The deep selector, given the Openrouter preset select_llm_provider
\* returned, has its menu up.
C9_Witness ==
    /\ fn = "select_deep_thinking_agent"
    /\ arg.composed
    /\ arg.info[1] = <<"O", "p", "e", "n", "r", "o", "u", "t", "e", "r">>
    /\ pc = "deep_model_menu"

\* ---- C10 ---------------------------------------------------------------
C10_Before(p, q) ==
    \A i \in 1..Len(prompts) : \A j \in 1..Len(prompts) :
        (prompts[i] = p /\ prompts[j] = q) => i < j

C10_Shown(p) == \E i \in 1..Len(prompts) : prompts[i] = p

\* C10: in select_llm_provider the saved-configuration question is put if
\* and only if list_configs() is non-empty, and before the provider menu;
\* select_saved_config is called only after the answer yes; when it gives a
\* configuration the saved_config tuple is returned and neither the provider
\* menu nor the custom prompts are shown; with no saved configuration the
\* provider menu is the first prompt.
C10_SavedConfigOfferedFirst ==
    fn = "select_llm_provider" =>
        /\ C10_Shown("confirm_saved") <=> locals.has_configs
        /\ C10_Shown("confirm_saved") => prompts[1] = "confirm_saved"
        /\ C10_Before("confirm_saved", "provider_menu")
        /\ C10_Shown("select_saved_config") =>
              /\ Len(prompts) >= 2 /\ prompts[2] = "select_saved_config"
              /\ answers # <<>> /\ answers[1] = "yes"
              /\ locals.use_saved = "yes"
        /\ (Len(answers) >= 2 /\ prompts[2] = "select_saved_config"
               /\ answers[2] = "value") =>
              /\ ret.returned /\ pc = "idle"
              /\ ret.info[1] = LabelSaved /\ ret.info[2] = "saved_config"
              /\ ret.info[3].type = "saved_config"
              /\ prompts = <<"confirm_saved", "select_saved_config">>
        /\ ~locals.has_configs => prompts[1] = "provider_menu"

\* A saved configuration was offered, accepted, picked and returned.
C10_Witness ==
    /\ fn = "select_llm_provider"
    /\ locals.has_configs
    /\ prompts = <<"confirm_saved", "select_saved_config">>
    /\ answers = <<"yes", "value">>
    /\ ret.returned
    /\ ret.info[3].type = "saved_config"

\* ---- C5 ----------------------------------------------------------------
C5_Keys ==
    {"project_dir", "results_dir", "data_dir", "data_cache_dir", "llm_provider",
     "deep_think_llm", "quick_think_llm", "backend_url", "max_debate_rounds",
     "max_risk_discuss_rounds", "max_recur_limit", "online_tools"}

\* C5: DEFAULT_CONFIG has exactly the twelve keys; results_dir is the value
\* of TRADINGAGENTS_RESULTS_DIR when that is set and "./results" when not,
\* and no other entry changes with the environment; the configuration
\* main.py builds is another object with the same twelve keys, and building
\* it leaves DEFAULT_CONFIG as it was.
C5_DefaultConfigKeys ==
    /\ DOMAIN DEFAULT_CONFIG = C5_Keys
    /\ Cardinality(DOMAIN DEFAULT_CONFIG) = 12
    /\ DEFAULT_CONFIG.results_dir =
          (IF "TRADINGAGENTS_RESULTS_DIR" \in DOMAIN environ
           THEN environ["TRADINGAGENTS_RESULTS_DIR"] ELSE "./results")
    /\ \A e \in Environs : \A k \in C5_Keys \ {"results_dir"} :
          DefaultConfigOf(e, module_dir)[k] = DEFAULT_CONFIG[k]
    /\ config # "" =>
          /\ config # DefaultConfigObj
          /\ DOMAIN heap[config] = C5_Keys
    /\ DEFAULT_CONFIG = DefaultConfigOf(environ, module_dir)

\* main.py has run to its end with the results directory set in the
\* environment.
C5_Witness ==
    /\ pc = "main:end"
    /\ config # ""
    /\ "TRADINGAGENTS_RESULTS_DIR" \in DOMAIN environ
    /\ heap[config].results_dir = environ["TRADINGAGENTS_RESULTS_DIR"]

====
